---- MODULE Spec2Model ----
(***************************************************************************)
(* Quadrature decoder of pio/pio_qei.py: the PIO program QEI_prog executed *)
(* one instruction per step by one state machine, the TX/RX FIFOs between  *)
(* the state machine and the host, and the host calls of PIOQEI.get().     *)
(* Program addresses (the program is loaded at 0):                         *)
(*   0..13  jump table          14 decrement (jmp y--)                     *)
(*   15 update: set x,0         16 pull noblock     17 mov x,osr           *)
(*   18 mov osr,isr             19 jmp !x           20 mov isr,y           *)
(*   21 push                    22 sample_pins: mov isr,null               *)
(*   23 in osr,2                24 in pins,2        25 mov pc,isr          *)
(*   26 increment: mov x,~y     27 jmp x--          28 mov y,~x (wrap)     *)
(*   29..31 nop                                                            *)
(***************************************************************************)
EXTENDS Integers, Sequences, FiniteSets, TLC

\* ---------------------------------------------------------------- bounds
MaxSamples == 4
MaxReq == 5
MaxReqSampling == 2
MaxReqAny == 1
MaxReqTime == 2
MaxCalls == 2
MaxPairSamples == 2
MaxPairCalls == 1

\* ------------------------------------------------------ program constants
FifoDepth == 4

\* A 32-bit register is modelled by the signed (two's complement) reading of
\* its 32 bits, MinInt32..MaxInt32: 16^^FFFFFFFF is -1, 16^^80000000 is MinInt32
MaxInt32 == 2147483647
MinInt32 == (-MaxInt32) - 1

UPDATE == 15
DECREMENT == 14
SAMPLE_PINS == 22
INCREMENT == 26
INCREMENT_CONT == 28

ReqWord == 1

VARIABLES
  pc, x, y, isr, osr,     \* state machine registers
  tx, rx,                 \* FIFOs: host -> state machine, state machine -> host
  cpc,                    \* host position: "idle" or "reading" (inside sm.get())
  nSamples,               \* number of executions of in_(pins, 2)
  prevPin, curPin,        \* the two most recent pin samples (curPin is the newest)
  ySnap,                  \* y when the newest sample was taken
  tblCount,               \* table-driven count, previous state starting at 00
  refCount,               \* table-driven count, previous state seeded by the first sample
  issued, pulled,         \* number of sm.put(1) calls; of request words pulled
  produced, taken,        \* number of pushes; of sm.get() returns
  reqSinceTake,           \* a request was issued since the latest returned sm.get()
  txFresh,                \* for each word of tx: written after the current iteration started
  obsFresh,               \* txFresh of the request word pulled by the current iteration
  served,                 \* the current iteration has pushed a value
  rxExpect,               \* y at the pull of each request not yet taken by the host
  rxSeq,                  \* for each word of rx: its number in the order of production
  cyc,                    \* instructions executed since the newest in_(pins, 2)
  ages,                   \* for each request not yet pushed: instructions executed since its write
  cur,                    \* the state machine the variables above describe (0: there is only one)
  other                   \* the registers, FIFOs and history of the second state machine

smVars == <<pc, x, y, isr, osr>>
fifoVars == <<tx, rx>>
sampleVars == <<nSamples, prevPin, curPin, ySnap, tblCount, refCount>>
hostVars == <<cpc, issued, taken, reqSinceTake>>
reqVars == <<txFresh, obsFresh, served, rxExpect, rxSeq, pulled, produced>>
timeVars == <<cyc, ages>>
pairVars == <<cur, other>>
vars == <<smVars, fifoVars, sampleVars, hostVars, reqVars, timeVars, pairVars>>

\* ------------------------------------------------------------ arithmetic
\* v - 1 modulo 2^32
Dec32(v) == IF v = MinInt32 THEN MaxInt32 ELSE v - 1

\* bitwise complement of the 32 bits
Invert(v) == (-1) - v

\* v + d modulo 2^32, for d in {-1, 0, 1}
Add32(v, d) ==
  IF d = 1 THEN (IF v = MaxInt32 THEN MinInt32 ELSE v + 1)
  ELSE IF d = -1 THEN (IF v = MinInt32 THEN MaxInt32 ELSE v - 1)
  ELSE v

\* in_(src, 2) with in_shiftdir = SHIFT_LEFT: shift the register left by 2
\* (the two top bits are lost) and insert the two least significant bits
\* of the source
ShiftIn2(reg, src) ==
  LET low30 == reg % 1073741824
      kept == IF low30 >= 536870912 THEN low30 - 1073741824 ELSE low30
  IN  kept * 4 + (src % 4)

\* mutant: the jump of "00 state, read 01" goes to increment
JmpTargetSwapped ==
  <<UPDATE, INCREMENT, INCREMENT, UPDATE,
    INCREMENT, UPDATE, UPDATE, DECREMENT,
    DECREMENT, UPDATE, UPDATE, INCREMENT,
    UPDATE, INCREMENT>>

\* mutant: the invalid transition "00 state, read 11" counts up
JmpTargetGlitch ==
  <<UPDATE, DECREMENT, INCREMENT, INCREMENT,
    INCREMENT, UPDATE, UPDATE, DECREMENT,
    DECREMENT, UPDATE, UPDATE, INCREMENT,
    UPDATE, INCREMENT>>

\* targets of the 14 jmp instructions at addresses 0..13
JmpTarget ==
  <<UPDATE, DECREMENT, INCREMENT, UPDATE,
    INCREMENT, UPDATE, UPDATE, DECREMENT,
    DECREMENT, UPDATE, UPDATE, INCREMENT,
    UPDATE, INCREMENT>>

\* the transition table of the specification: +1 Increment, -1 Decrement, 0 NoOp
Action(p, n) ==
  CASE p = 0 /\ n = 1 -> -1
    [] p = 0 /\ n = 2 -> 1
    [] p = 1 /\ n = 0 -> 1
    [] p = 1 /\ n = 3 -> -1
    [] p = 2 /\ n = 0 -> -1
    [] p = 2 /\ n = 3 -> 1
    [] p = 3 /\ n = 1 -> 1
    [] p = 3 /\ n = 2 -> -1
    [] OTHER -> 0

\* the current iteration has started (at `update`) and has not yet pulled
IterationBegun == pc = 16

\* the state the hardware is in when PIOQEI.__init__ has activated the state
\* machine: registers cleared, both FIFOs empty, execution at the first
\* instruction of the program (address 0); y0 and p0 are the register contents
InitWith(y0, p0) ==
  /\ pc = 0 /\ x = 0 /\ y = y0 /\ isr = p0 /\ osr = 0
  /\ tx = <<>> /\ rx = <<>>
  /\ cpc = "idle"
  /\ nSamples = 0 /\ prevPin = p0 /\ curPin = p0 /\ ySnap = y0
  /\ tblCount = 0 /\ refCount = 0
  /\ issued = 0 /\ pulled = 0 /\ produced = 0 /\ taken = 0
  /\ reqSinceTake = FALSE
  /\ txFresh = <<>> /\ obsFresh = FALSE /\ served = FALSE
  /\ rxExpect = <<>> /\ rxSeq = <<>>
  /\ cyc = 0 /\ ages = <<>>

\* one state machine on its own
Single == cur = 0 /\ other = <<>>

Init == InitWith(0, 0) /\ Single

\* ------------------------------------------------- state machine program
\* addresses 0..13: jmp("update") / jmp("decrement") / jmp("increment")
JmpTable ==
  /\ pc \in 0..13
  /\ pc' = JmpTarget[pc + 1]
  /\ UNCHANGED <<x, y, isr, osr, fifoVars, sampleVars, hostVars, reqVars>>

\* mutant: the decrementing jump targets itself, not the next address
DecrementLoop ==
  /\ pc = DECREMENT
  /\ y' = Dec32(y)
  /\ pc' = IF y # 0 THEN DECREMENT ELSE UPDATE
  /\ UNCHANGED <<x, isr, osr, fifoVars, sampleVars, hostVars, reqVars>>

\* address 14: jmp(y_dec, "update"): the target is the next address, so the
\* instruction only decrements Y (modulo 2^32)
Decrement ==
  /\ pc = DECREMENT
  /\ y' = Dec32(y)
  /\ pc' = UPDATE
  /\ UNCHANGED <<x, isr, osr, fifoVars, sampleVars, hostVars, reqVars>>

\* mutant: X is not cleared before the pull
SetXSkipped ==
  /\ pc = UPDATE
  /\ pc' = 16
  /\ txFresh' = [i \in DOMAIN txFresh |-> FALSE]
  /\ obsFresh' = FALSE
  /\ served' = FALSE
  /\ UNCHANGED <<x, y, isr, osr, fifoVars, sampleVars, hostVars,
                 rxExpect, rxSeq, pulled, produced>>

\* address 15: set(x, 0)
SetX ==
  /\ pc = UPDATE
  /\ x' = 0
  /\ pc' = 16
  /\ txFresh' = [i \in DOMAIN txFresh |-> FALSE]
  /\ obsFresh' = FALSE
  /\ served' = FALSE
  /\ UNCHANGED <<y, isr, osr, fifoVars, sampleVars, hostVars,
                 rxExpect, rxSeq, pulled, produced>>

\* mutant: the pull empties the TX FIFO, folding all pending requests into one
PullDrain ==
  /\ pc = 16
  /\ IF tx # <<>>
       THEN /\ osr' = Head(tx)
            /\ tx' = <<>>
            /\ obsFresh' = Head(txFresh)
            /\ txFresh' = <<>>
            /\ rxExpect' = Append(rxExpect, y)
            /\ pulled' = pulled + 1
       ELSE /\ osr' = x
            /\ UNCHANGED <<tx, txFresh, obsFresh, rxExpect, pulled>>
  /\ pc' = 17
  /\ UNCHANGED <<x, y, isr, rx, sampleVars, hostVars, served, rxSeq, produced>>

\* address 16: pull(noblock): OSR gets the oldest TX word, or X when the
\* TX FIFO is empty
Pull ==
  /\ pc = 16
  /\ IF tx # <<>>
       THEN /\ osr' = Head(tx)
            /\ tx' = Tail(tx)
            /\ obsFresh' = Head(txFresh)
            /\ txFresh' = Tail(txFresh)
            /\ rxExpect' = Append(rxExpect, y)
            /\ pulled' = pulled + 1
       ELSE /\ osr' = x
            /\ UNCHANGED <<tx, txFresh, obsFresh, rxExpect, pulled>>
  /\ pc' = 17
  /\ UNCHANGED <<x, y, isr, rx, sampleVars, hostVars, served, rxSeq, produced>>

\* address 17: mov(x, osr)
MovXOsr ==
  /\ pc = 17
  /\ x' = osr
  /\ pc' = 18
  /\ UNCHANGED <<y, isr, osr, fifoVars, sampleVars, hostVars, reqVars>>

\* mutant: the pin state is not saved to OSR
MovOsrIsrSkipped ==
  /\ pc = 18
  /\ pc' = 19
  /\ UNCHANGED <<x, y, isr, osr, fifoVars, sampleVars, hostVars, reqVars>>

\* address 18: mov(osr, isr)
MovOsrIsr ==
  /\ pc = 18
  /\ osr' = isr
  /\ pc' = 19
  /\ UNCHANGED <<x, y, isr, fifoVars, sampleVars, hostVars, reqVars>>

\* mutant: the jump is never taken, every iteration pushes
JmpNotXNever ==
  /\ pc = 19
  /\ pc' = 20
  /\ UNCHANGED <<x, y, isr, osr, fifoVars, sampleVars, hostVars, reqVars>>

\* mutant: the jump is always taken, no iteration pushes
JmpNotXAlways ==
  /\ pc = 19
  /\ pc' = SAMPLE_PINS
  /\ UNCHANGED <<x, y, isr, osr, fifoVars, sampleVars, hostVars, reqVars>>

\* address 19: jmp(not_x, "sample_pins")
JmpNotX ==
  /\ pc = 19
  /\ pc' = IF x = 0 THEN SAMPLE_PINS ELSE 20
  /\ UNCHANGED <<x, y, isr, osr, fifoVars, sampleVars, hostVars, reqVars>>

\* mutant: the request word, not the count, is moved to ISR
MovIsrX ==
  /\ pc = 20
  /\ isr' = x
  /\ pc' = 21
  /\ UNCHANGED <<x, y, osr, fifoVars, sampleVars, hostVars, reqVars>>

\* address 20: mov(isr, y)
MovIsrY ==
  /\ pc = 20
  /\ isr' = y
  /\ pc' = 21
  /\ UNCHANGED <<x, y, osr, fifoVars, sampleVars, hostVars, reqVars>>

\* mutant: the push overwrites what the RX FIFO holds
PushOverwrite ==
  /\ pc = 21
  /\ rx' = <<isr>>
  /\ isr' = 0
  /\ produced' = produced + 1
  /\ rxSeq' = <<produced + 1>>
  /\ served' = TRUE
  /\ pc' = SAMPLE_PINS
  /\ UNCHANGED <<x, y, osr, tx, sampleVars, hostVars, txFresh, obsFresh,
                 rxExpect, pulled>>

\* address 21: push() (blocking): stalls while the RX FIFO is full,
\* otherwise appends ISR to the RX FIFO and clears ISR
Push ==
  /\ pc = 21
  /\ Len(rx) < FifoDepth
  /\ rx' = Append(rx, isr)
  /\ isr' = 0
  /\ produced' = produced + 1
  /\ rxSeq' = Append(rxSeq, produced + 1)
  /\ served' = TRUE
  /\ pc' = SAMPLE_PINS
  /\ UNCHANGED <<x, y, osr, tx, sampleVars, hostVars, txFresh, obsFresh,
                 rxExpect, pulled>>

\* mutant: ISR is not cleared before the two shifts
MovIsrNullSkipped ==
  /\ pc = SAMPLE_PINS
  /\ pc' = 23
  /\ UNCHANGED <<x, y, isr, osr, fifoVars, sampleVars, hostVars, reqVars>>

\* address 22: mov(isr, null)
MovIsrNull ==
  /\ pc = SAMPLE_PINS
  /\ isr' = 0
  /\ pc' = 23
  /\ UNCHANGED <<x, y, osr, fifoVars, sampleVars, hostVars, reqVars>>

\* address 23: in_(osr, 2)
InOsr ==
  /\ pc = 23
  /\ isr' = ShiftIn2(isr, osr)
  /\ pc' = 24
  /\ UNCHANGED <<x, y, osr, fifoVars, sampleVars, hostVars, reqVars>>

\* address 24: in_(pins, 2): the two input pins read n, one of Pins
InPins(Pins) ==
  /\ pc = 24
  /\ nSamples < MaxSamples
  /\ \E n \in Pins :
       /\ isr' = ShiftIn2(isr, n)
       /\ prevPin' = curPin
       /\ curPin' = n
       /\ tblCount' = tblCount + Action(curPin, n)
       /\ refCount' = IF nSamples = 0 THEN 0 ELSE refCount + Action(curPin, n)
  /\ nSamples' = nSamples + 1
  /\ ySnap' = y
  /\ pc' = 25
  /\ UNCHANGED <<x, y, osr, fifoVars, hostVars, reqVars>>

\* address 25: mov(pc, isr): computed jump (the program counter has 5 bits)
MovPcIsr ==
  /\ pc = 25
  /\ pc' = isr % 32
  /\ UNCHANGED <<x, y, isr, osr, fifoVars, sampleVars, hostVars, reqVars>>

\* address 26: mov(x, invert(y))
IncInvert ==
  /\ pc = INCREMENT
  /\ x' = Invert(y)
  /\ pc' = 27
  /\ UNCHANGED <<y, isr, osr, fifoVars, sampleVars, hostVars, reqVars>>

\* address 27: jmp(x_dec, "increment_cont"): the target is the next address
IncDecX ==
  /\ pc = 27
  /\ x' = Dec32(x)
  /\ pc' = INCREMENT_CONT
  /\ UNCHANGED <<y, isr, osr, fifoVars, sampleVars, hostVars, reqVars>>

\* mutant: the program wraps to its first address, not to wrap_target
IncInvertBackToStart ==
  /\ pc = INCREMENT_CONT
  /\ y' = Invert(x)
  /\ pc' = 0
  /\ UNCHANGED <<x, isr, osr, fifoVars, sampleVars, hostVars, reqVars>>

\* address 28: mov(y, invert(x)), then wrap() to wrap_target (update)
IncInvertBack ==
  /\ pc = INCREMENT_CONT
  /\ y' = Invert(x)
  /\ pc' = UPDATE
  /\ UNCHANGED <<x, isr, osr, fifoVars, sampleVars, hostVars, reqVars>>

SMStep(Pins) ==
  \/ JmpTable \/ Decrement \/ SetX \/ Pull \/ MovXOsr \/ MovOsrIsr
  \/ JmpNotX \/ MovIsrY \/ Push \/ MovIsrNull \/ InOsr \/ InPins(Pins)
  \/ MovPcIsr \/ IncInvert \/ IncDecX \/ IncInvertBack

\* ------------------------------------------------------------------ host
\* self.sm.put(1): write the request word to the TX FIFO (waits while full)
Put(maxReq) ==
  /\ cpc = "idle"
  /\ issued < maxReq
  /\ Len(tx) < FifoDepth
  /\ tx' = Append(tx, ReqWord)
  /\ txFresh' = Append(txFresh, IterationBegun)
  /\ issued' = issued + 1
  /\ reqSinceTake' = TRUE
  /\ UNCHANGED <<smVars, rx, sampleVars, cpc, taken,
                 obsFresh, served, rxExpect, rxSeq, pulled, produced>>

\* self.sm.get() is entered: the host now waits for an RX word
BeginTake ==
  /\ cpc = "idle"
  /\ cpc' = "reading"
  /\ UNCHANGED <<smVars, fifoVars, sampleVars, issued, taken,
                 reqSinceTake, reqVars>>

\* self.sm.get() returns the oldest RX word
Take ==
  /\ cpc = "reading"
  /\ rx # <<>>
  /\ rx' = Tail(rx)
  /\ rxExpect' = Tail(rxExpect)
  /\ rxSeq' = Tail(rxSeq)
  /\ taken' = taken + 1
  /\ reqSinceTake' = FALSE
  /\ cpc' = "idle"
  /\ UNCHANGED <<smVars, tx, sampleVars, issued, txFresh, obsFresh, served,
                 pulled, produced>>

\* one instruction takes one clock cycle: every instruction executed adds a
\* cycle to the time since the newest sample (in_(pins, 2), address 24,
\* restarts it) and, where request times are kept, to the age of every
\* request not yet pushed (push(), address 21, ends the oldest)
Tick(timed) ==
  /\ cyc' = IF pc = 24 THEN 0 ELSE cyc + 1
  /\ ages' = IF ~timed THEN ages
             ELSE LET older == [i \in DOMAIN ages |->
                                 [ages[i] EXCEPT !.age = @ + 1]]
                  IN  IF pc = 21 /\ older # <<>> THEN Tail(older) ELSE older

\* the state machine executes its next instruction
Run(Pins, timed) == SMStep(Pins) /\ Tick(timed)

\* a request is written: its age starts at 0; alone tells whether every
\* earlier request had been pushed when it was written
Written(timed) ==
  /\ ages' = IF timed
               THEN Append(ages, [age |-> 0, alone |-> issued = produced])
               ELSE ages
  /\ UNCHANGED cyc

\* the host calls sm.put(1) and sm.get() in any order
Host(maxReq, timed) ==
  \/ Put(maxReq) /\ Written(timed)
  \/ BeginTake /\ UNCHANGED timeVars
  \/ Take /\ UNCHANGED timeVars

\* the host only calls PIOQEI.get(): sm.put(1), then sm.get(), at most
\* maxCalls times
HostGet(maxCalls, timed) ==
  \/ ~reqSinceTake /\ Put(maxCalls) /\ Written(timed)
  \/ reqSinceTake /\ BeginTake /\ UNCHANGED timeVars
  \/ Take /\ UNCHANGED timeVars

\* every pin reading, few requests
AllPins == 0..3
Next == (Run(AllPins, FALSE) \/ Host(MaxReqSampling, FALSE)) /\ UNCHANGED pairVars

Spec == Init /\ [][Next]_vars

\* phase A toggling with phase B low, enough requests to fill both FIFOs
PhaseAPins == {0, 2}
NextFifo == (Run(PhaseAPins, FALSE) \/ Host(MaxReq, FALSE)) /\ UNCHANGED pairVars

SpecFifo == Init /\ [][NextFifo]_vars

\* the decoder after it has run for an arbitrary time: any counter value,
\* among them both ends of the unsigned and of the signed 32-bit range
YStart == {0, -1, MaxInt32, MinInt32}
InitAny == (\E y0 \in YStart : InitWith(y0, 0)) /\ Single
NextAny == (Run(AllPins, FALSE) \/ Host(MaxReqAny, FALSE)) /\ UNCHANGED pairVars

SpecAny == InitAny /\ [][NextAny]_vars

\* request times kept: phase A toggling, two requests
NextTime == (Run(PhaseAPins, TRUE) \/ Host(MaxReqTime, TRUE)) /\ UNCHANGED pairVars

SpecTime == Init /\ [][NextTime]_vars

\* the main loop's use of one decoder: calls of PIOQEI.get() only. The
\* state machine executes an instruction every clock cycle and the host
\* goes on with its call, so each keeps taking the steps it can take
StepGet == Run(AllPins, TRUE) /\ UNCHANGED pairVars
HostStepGet == HostGet(MaxCalls, TRUE) /\ UNCHANGED pairVars
NextGet == StepGet \/ HostStepGet

SpecGet == Init /\ [][NextGet]_vars /\ WF_vars(StepGet) /\ WF_vars(HostStepGet)

\* ------------------------------------------------- two state machines
\* qei1 and qei2 run the same program on two state machines, each with its
\* own registers, FIFOs and pins. The variables above describe state
\* machine `cur`, and `other` holds the same variables of the second one.
Bank ==
  [pc |-> pc, x |-> x, y |-> y, isr |-> isr, osr |-> osr, tx |-> tx, rx |-> rx,
   cpc |-> cpc, nSamples |-> nSamples, prevPin |-> prevPin, curPin |-> curPin,
   ySnap |-> ySnap, tblCount |-> tblCount, refCount |-> refCount,
   issued |-> issued, pulled |-> pulled, produced |-> produced, taken |-> taken,
   reqSinceTake |-> reqSinceTake, txFresh |-> txFresh, obsFresh |-> obsFresh,
   served |-> served, rxExpect |-> rxExpect, rxSeq |-> rxSeq,
   cyc |-> cyc, ages |-> ages]

InitPair == InitWith(0, 0) /\ cur = 1 /\ other = Bank

\* the next step is one of the second state machine, or of a host call on it
Switch ==
  /\ cur \in {1, 2}
  /\ cur' = 3 - cur
  /\ other' = Bank
  /\ pc' = other.pc /\ x' = other.x /\ y' = other.y /\ isr' = other.isr
  /\ osr' = other.osr /\ tx' = other.tx /\ rx' = other.rx /\ cpc' = other.cpc
  /\ nSamples' = other.nSamples /\ prevPin' = other.prevPin
  /\ curPin' = other.curPin /\ ySnap' = other.ySnap
  /\ tblCount' = other.tblCount /\ refCount' = other.refCount
  /\ issued' = other.issued /\ pulled' = other.pulled
  /\ produced' = other.produced /\ taken' = other.taken
  /\ reqSinceTake' = other.reqSinceTake /\ txFresh' = other.txFresh
  /\ obsFresh' = other.obsFresh /\ served' = other.served
  /\ rxExpect' = other.rxExpect /\ rxSeq' = other.rxSeq
  /\ cyc' = other.cyc /\ ages' = other.ages

\* one forward rotation of an encoder, 00 -> 01 -> 11 -> 10 -> 00, repeated:
\* the reading of the pins at the k-th sample (k = 0 is the first)
Rotation == <<1, 3, 2, 0>>
RotationPin(k) == Rotation[(k % 4) + 1]

\* the same rotation in the opposite direction: phases A and B exchanged
Mirror(n) == CASE n = 1 -> 2 [] n = 2 -> 1 [] OTHER -> n

\* the two encoders turn in opposite directions: state machine 1 reads the
\* forward rotation, state machine 2 the opposite one
TurnPins(maxSamples) ==
  IF nSamples >= maxSamples THEN {}
  ELSE IF cur = 1 THEN {RotationPin(nSamples)} ELSE {Mirror(RotationPin(nSamples))}

\* the main loop reads both counters with get() only
NextPair ==
  \/ (Run(TurnPins(MaxPairSamples), FALSE) \/ HostGet(MaxPairCalls, FALSE))
     /\ UNCHANGED pairVars
  \/ Switch

SpecPair == InitPair /\ [][NextPair]_vars

\* one decoder on an encoder that turns forward (cur = 1) or backward (cur = 2)
InitRotation == InitWith(0, 0) /\ cur \in {1, 2} /\ other = <<>>

NextRotation ==
  (Run(TurnPins(MaxSamples), FALSE) \/ Host(MaxReqSampling, FALSE))
  /\ UNCHANGED pairVars

SpecRotation == InitRotation /\ [][NextRotation]_vars

\* ----------------------------------------------------------------- claims
\* the 4-bit key of the newest sample: (previous pin state << 2) | new pin state
Key == prevPin * 4 + curPin

IncKeys == {2, 4, 11, 13}
DecKeys == {1, 7, 8, 14}
NoOpKeys == {0, 5, 10, 15, 3, 12, 6, 9}

\* C1: for every previous pin state p, new sample n and counter value c, the
\* iteration that forms the key (p<<2)|n lands on the instruction of that
\* key and arrives at `update` with the counter changed by exactly the table
\* entry of the key (+1, -1 or 0, modulo 2^32).
C1_TableApplied ==
  /\ pc \in 0..13 => pc = Key
  /\ pc = DECREMENT => Key \in DecKeys /\ y = ySnap
  /\ pc \in INCREMENT..INCREMENT_CONT => Key \in IncKeys /\ y = ySnap
  /\ pc \notin 29..31
  /\ (pc = UPDATE /\ nSamples >= 1) =>
       y = (CASE Key \in IncKeys -> Add32(ySnap, 1)
              [] Key \in DecKeys -> Add32(ySnap, -1)
              [] Key \in NoOpKeys -> ySnap)

\* a decrement (01 -> 11) taken at the bottom of the signed range has
\* arrived at `update` with the counter wrapped to the top
C1_Witness ==
  /\ pc = UPDATE /\ prevPin = 1 /\ curPin = 3
  /\ ySnap = MinInt32 /\ y = MaxInt32

\* C10: every transition whose table entry is NoOp (the same pin state twice
\* in a row, and the double-bit transitions 00<->11 and 01<->10) leaves the
\* counter as it was when the sample was taken, whatever its value.
C10_NoOpKeepsCounter ==
  (nSamples >= 1 /\ Key \in {0, 5, 10, 15} \cup {3, 12} \cup {6, 9}) => y = ySnap

\* the invalid transition 11 -> 00 has been taken with the counter at the
\* top of the signed range
C10_Witness ==
  /\ pc = UPDATE /\ nSamples >= 2 /\ prevPin = 3 /\ curPin = 0
  /\ y = MaxInt32

\* C2: running the decoder from Counter = 0 over a sample sequence leaves
\* the counter equal to the reference simulation that sums the table actions
\* of the consecutive sample pairs, the reference's previous state being
\* seeded from the first sample.
C2_MatchesSeededReference ==
  (pc = UPDATE /\ nSamples >= 1) => y = refCount

\* C3: after the first sampling iteration the counter is still 0, whatever
\* the first sample is.
C3_FirstIterationNoOp ==
  (pc = UPDATE /\ nSamples = 1) => y = 0

\* C8: servicing a request loses no sample state: through the whole of
\* `update` and `sample_pins` the counter is the table-driven count of the
\* samples taken so far, the previous pin state shifted into the key is the
\* newest sample, and the key moved to PC is (previous << 2) | new, with or
\* without a request in the iteration.
C8_ServiceKeepsSampleState ==
  /\ pc \in UPDATE..24 => y = tblCount
  /\ pc \in {SAMPLE_PINS, 23} => osr % 4 = curPin
  /\ pc = 24 => isr = curPin
  /\ pc = 25 => isr = Key

\* an iteration that pushed a count has also counted its sample (10 -> 11),
\* the second count in a row
C8_Witness ==
  /\ pc = UPDATE /\ served /\ prevPin = 2 /\ curPin = 3 /\ y = 2

\* C4: the state machine never stalls at its push (its pull cannot stall),
\* whatever the host does.
C4_NeverStalls ==
  pc = 21 => Len(rx) < FifoDepth

C7_ObservedByLaterIteration ==
  /\ \A i \in 1..Len(rx) : rx[i] = rxExpect[i]
  /\ ~obsFresh

\* C7 (amended): the value obtained for a request is the counter at the
\* pull that observed the request; later iterations do not change it, and
\* no value is produced before its request; the observing iteration may
\* have started (set(x, 0)) before the request was written.
C7_ValueOfObservingPull ==
  /\ Len(rxExpect) = Len(rx) + (pulled - produced)
  /\ \A i \in 1..Len(rx) : rx[i] = rxExpect[i]
  /\ pc = 21 => isr = rxExpect[Len(rxExpect)]
  /\ produced <= pulled /\ pulled <= issued

\* a pushed count is still pending after later iterations changed the counter
C7_Witness ==
  /\ Len(rx) = 1 /\ rx[1] = 1 /\ y = 0 /\ nSamples >= 3 /\ taken = 0

C11_AtMostOnePerIteration ==
  y \in {ySnap, Add32(ySnap, 1), Add32(ySnap, -1)}

\* an iteration that pushed a count has also incremented the counter, once
C11_Witness ==
  /\ pc = UPDATE /\ served /\ Key \in IncKeys /\ ySnap = MaxInt32 /\ y = MinInt32

\* C12: an iteration whose pull finds no request word produces no value
\* (it leaves OSR and X at 0 and jumps over the push), and the number of
\* values produced never exceeds the number of requests issued.
C12_NoRequestNoValue ==
  /\ (pc = 17 /\ pulled = produced) => osr = 0
  /\ (pc \in {18, 19} /\ pulled = produced) => x = 0
  /\ pc \in {20, 21} => pulled > produced
  /\ (pc \in SAMPLE_PINS..24 /\ served) => produced >= 1
  /\ produced <= issued

\* after one served request, a later iteration with nothing pending has
\* reached sample_pins without pushing, X holding a stale value before it
C12_Witness ==
  /\ pc = SAMPLE_PINS /\ ~served /\ produced = 1 /\ issued = 1
  /\ nSamples >= 2 /\ Key \in IncKeys

\* the two value-dependent jumps go to the next address whatever X or Y
\* hold (a step of the host leaves the program counter where it is)
C19_StraightLine ==
  /\ pc = DECREMENT => pc' \in {DECREMENT + 1, pc}
  /\ pc = 27 => pc' \in {28, pc}
  /\ (pc = DECREMENT /\ y' # y) => (pc' = UPDATE /\ y' = Add32(y, -1))

\* C19: the counter is a 32-bit value with wrap-around: invert, decrement,
\* invert maps Y to Y + 1 and jmp(y_dec) maps Y to Y - 1 (modulo 2^32), an
\* increment followed by a decrement (or the reverse) restores Y, and neither
\* sequence's control flow depends on X or Y.
C19_WrapAround ==
  /\ [](/\ pc = 27 => x = Invert(ySnap)
        /\ pc = INCREMENT_CONT => Invert(x) = Add32(ySnap, 1)
        /\ (pc = UPDATE /\ nSamples >= 1 /\ Key \in IncKeys) => y = Add32(ySnap, 1)
        /\ (pc = UPDATE /\ nSamples >= 1 /\ Key \in DecKeys) => y = Add32(ySnap, -1)
        /\ Dec32(Invert(Dec32(Invert(y)))) = y
        /\ Invert(Dec32(Invert(Dec32(y)))) = y)
  /\ [][C19_StraightLine]_vars

\* a decrement executed with Y = 0 has gone on to `update`, Y wrapped to
\* 16^^FFFFFFFF
C19_Witness ==
  /\ pc = UPDATE /\ Key \in DecKeys /\ ySnap = 0 /\ y = -1

\* C20: with the program at address 0, the value moved into PC by
\* mov(pc, isr) is in 0..15 and is (previous sample << 2) | new sample, and
\* execution never reaches the nop instructions at 29..31.
C20_ComputedJumpInTable ==
  /\ pc = 25 => (isr \in 0..15 /\ isr = 4 * prevPin + curPin)
  /\ pc \in 0..INCREMENT_CONT

\* the computed jump is about to go to the last table entry in use (11 -> 10)
C20_Witness ==
  /\ pc = 25 /\ isr = 14 /\ prevPin = 3 /\ curPin = 2

\* C15 (as stated): from one execution of in_(pins, 2) to the next, the state
\* machine executes at most 14 instructions, on every path.  cyc counts the
\* instructions executed since the newest sample; the next sample is the
\* instruction at address 24 itself.
C15_AtMost14Cycles == (pc = 24 /\ nSamples >= 1) => cyc + 1 <= 14

C17_GetTerminates ==
  (reqSinceTake /\ nSamples < MaxSamples) ~> (~reqSinceTake /\ cpc = "idle")

C17_Witness ==
  /\ ~reqSinceTake /\ cpc = "idle" /\ taken = MaxCalls
  /\ tx = <<>> /\ rx = <<>> /\ nSamples >= 2

\* C18: with get() as the only consumer operation, the TX FIFO and the RX
\* FIFO never hold more than one word, both are empty whenever no get() is
\* in progress, and the push at address 21 never finds the RX FIFO full.
C18_GetKeepsFifosShort ==
  /\ Len(tx) <= 1
  /\ Len(rx) <= 1
  /\ (cpc = "idle" /\ ~reqSinceTake) => (tx = <<>> /\ rx = <<>>)
  /\ pc = 21 => Len(rx) < FifoDepth
  /\ pc = 21 => rx = <<>>

C18_Witness == cpc = "reading" /\ Len(rx) = 1 /\ tx = <<>> /\ taken = 1

\* C14 (as stated): after the samples 01, 11, 10, 00 of one forward rotation,
\* read by a decoder that started with Counter = 0 and previous PinState 00,
\* the Counter is +4.
C14_ForwardRotationPlus4 ==
  (cur = 1 /\ nSamples = Len(Rotation) /\ pc \in UPDATE..24) => y = 4

\* C14 (amended): the rotation 00 -> 01 -> 11 -> 10 -> 00 yields Counter = -4
\* (each of its four transitions is a Decrement of the table); the opposite
\* rotation 00 -> 10 -> 11 -> 01 -> 00 yields Counter = +4.
C14_ForwardRotationMinus4 ==
  (nSamples = Len(Rotation) /\ pc \in UPDATE..24) =>
     /\ cur = 1 => y = -4
     /\ cur = 2 => y = 4

C14_Witness ==
  /\ cur = 1 /\ nSamples = Len(Rotation) /\ pc = UPDATE
  /\ prevPin = 2 /\ curPin = 0 /\ y = -4

\* C13, no interference: a step of one state machine, or a put() or get() on
\* it, leaves the other state machine's counter, saved pin state, FIFOs and
\* request history as they were.
C13_StepKeepsOther ==
  cur' = cur =>
     /\ other'.y = other.y /\ other'.osr = other.osr /\ other'.isr = other.isr
     /\ other'.tx = other.tx /\ other'.rx = other.rx
     /\ other'.pulled = other.pulled /\ other'.produced = other.produced
     /\ other' = other

\* C13: two decoders that start at Counter = 0 and read opposite rotations
\* hold opposite counters whenever they have read the same number of samples,
\* and neither is changed by the other's steps.
C13_OppositeCounters ==
  /\ [](    (nSamples = other.nSamples /\ pc \in UPDATE..24
               /\ other.pc \in UPDATE..24)
          => (y + other.y = 0 /\ tblCount + other.tblCount = 0))
  /\ [](pc \in UPDATE..24 => y = (IF cur = 1 THEN -nSamples ELSE nSamples))
  /\ [][C13_StepKeepsOther]_vars

C13_Witness ==
  /\ cur = 1 /\ pc = UPDATE /\ other.pc = UPDATE
  /\ nSamples = MaxPairSamples /\ other.nSamples = MaxPairSamples
  /\ y = -MaxPairSamples /\ other.y = MaxPairSamples
  /\ taken = 1 /\ other.taken = 1

====
